---- MODULE Spec2Model ----
(***************************************************************************)
(* Lead-intake service: POST /api/submit (multer upload, lead build,       *)
(* saveLead, optional e-mail, response), the JSON lead store leads.json,   *)
(* and the Basic-Auth admin reads GET /admin and GET /api/leads.           *)
(*                                                                         *)
(* The repository holds two near-duplicate copies of the server            *)
(* (src/server.js and src/unnamed/part_000).  `variant` says which copy is *)
(* running; where the copies differ the model branches on it.              *)
(*                                                                         *)
(* Node runs every handler to completion: readFileSync / writeFileSync are *)
(* synchronous, so lead construction, saveLead and res.json form ONE step. *)
(* Requests interleave only between the upload middleware, the handler and *)
(* the detached e-mail send.                                               *)
(*                                                                         *)
(* Spec explores concurrent submissions; AdminSpec explores the read-only  *)
(* admin routes against one submission and every environment.              *)
(***************************************************************************)
EXTENDS Integers, Sequences, FiniteSets, TLC

\* ---------------------------------------------------------------- bounds
MaxReq == 2          \* POST /api/submit requests in one run
MaxClock == 2        \* Date.now() ranges over 1..MaxClock

\* ------------------------------------------------------ program constants
fileSize == 10485760 \* limits.fileSize = 10 * 1024 * 1024
maxFiles == 5        \* limits.files (server.js) / upload.array maxCount (part_000)

Reqs == 1..MaxReq
Variants == {"server", "part_000"}

\* JavaScript's undefined (a missing form field, an unset environment variable)
undefined == "<undefined>"

\* a || b on strings: undefined and '' are falsy
Or(a, b) == IF a = undefined \/ a = "" THEN b ELSE a

\* ------------------------------------------------------------ JSON values
\* A parsed JSON value: its type tag and, for an array, its elements.
JArr(s) == [t |-> "arr", items |-> s]
JNull == [t |-> "null", items |-> <<>>]
JObj == [t |-> "obj", items |-> <<>>]
JStr == [t |-> "str", items |-> <<>>]

\* The text of a file: '' , text JSON.parse rejects, or the text of a JSON value.
EmptyText == [kind |-> "empty", val |-> JArr(<<>>)]
Garbage == [kind |-> "garbage", val |-> JArr(<<>>)]

\* JSON.stringify(v, null, 2): the text of v
JSONstringify(v) == [kind |-> "json", val |-> v]

\* JSON.parse(text): the value, or a SyntaxError ('' is rejected as well)
JSONparse(text) ==
  IF text.kind = "json" THEN [threw |-> FALSE, val |-> text.val]
  ELSE [threw |-> TRUE, val |-> JArr(<<>>)]

\* leads.json: absent, or present with some text
Absent == [exists |-> FALSE, text |-> EmptyText]
Present(text) == [exists |-> TRUE, text |-> text]

VARIABLES
  variant,    \* which copy of the server runs
  env,        \* process.env: ADMIN_USER, ADMIN_PASS, notify (NOTIFY_EMAIL && SMTP_HOST)
  now,        \* Date.now()
  file,       \* leads.json
  pc,         \* per request: "idle", "ready" (uploaded, handler queued), "done"
  req,        \* per request: the form body and the uploaded files
  resp,       \* per request: the HTTP response
  lead,       \* per request: the Lead the handler built
  email,      \* per request: "none", "pending", "sent", "failed"
  adminResp   \* the response to the last admin request

vars == <<variant, env, now, file, pc, req, resp, lead, email,
          adminResp>>

\* --------------------------------------------------------- request inputs
\* req.body of a submission: each known field is a string or missing
Body(c, n, cn) == [company |-> c, name |-> n, contactName |-> cn]

\* One uploaded part: its form field, its original name and its size in bytes
File(f, n, sz) == [fieldname |-> f, originalname |-> n, size |-> sz]

\* The submissions a client sends: a body with its uploads
Submissions ==
  { [body |-> Body("Acme", "Ann", undefined), files |-> <<>>],
    [body |-> Body(undefined, "", "Bob"),
     files |-> <<File("statements", "a.pdf", fileSize), File("statements", "b.pdf", 1)>>],
    [body |-> Body("Acme", "Ann", undefined), files |-> <<File("logo", "c.png", 1)>>],
    [body |-> Body("Acme", "Ann", undefined),
     files |-> <<File("statements", "big.pdf", fileSize + 1)>>],
    [body |-> Body(undefined, "", "Bob"),
     files |-> [i \in 1..(maxFiles + 1) |-> File("statements", "a.pdf", 1)]] }

NoReq == [body |-> Body(undefined, undefined, undefined), files |-> <<>>]

\* A Lead record; NoLead stands for "no lead was built"
NoLead == [id |-> -1, receivedAt |-> -1, company |-> "", contactName |-> "",
           files |-> <<>>]
OldLead == [id |-> 0, receivedAt |-> 0, company |-> "Old", contactName |-> "Zed",
            files |-> <<>>]

\* An HTTP response to POST /api/submit: `by` is "handler" for the route's own
\* res.json and "express" for Express's default error handler
NoResp == [status |-> 0, ok |-> FALSE, id |-> 0, by |-> "none"]
OkResp(id) == [status |-> 200, ok |-> TRUE, id |-> id, by |-> "handler"]
ServerError == [status |-> 500, ok |-> FALSE, id |-> 0, by |-> "handler"]
DefaultError == [status |-> 500, ok |-> FALSE, id |-> 0, by |-> "express"]

\* ------------------------------------------------------------- the upload
\* multer's limits: does the middleware end the request with a MulterError?
\* server.js: upload.any() with limits {fileSize, files: 5};
\* part_000: upload.array('statements', 5) with limits {fileSize}.
multerRejects(v, fs) ==
  \/ \E i \in 1..Len(fs) : fs[i].size > fileSize
  \/ IF v = "server"
     THEN Len(fs) > maxFiles
     ELSE \/ \E i \in 1..Len(fs) : fs[i].fieldname # "statements"
          \/ Len(fs) > maxFiles

\* ---------------------------------------------------------- the lead store
\* readLeads(): the parsed content of leads.json, [] when the file is absent
\* or anything throws.  `readThrows`: fs.readFileSync fails.
readLeads(f, readThrows) ==
  IF ~f.exists THEN JArr(<<>>)
  ELSE IF readThrows THEN JArr(<<>>)
  ELSE LET raw == IF f.text.kind = "empty" THEN JSONstringify(JArr(<<>>)) ELSE f.text
           p == JSONparse(raw)
       IN IF p.threw THEN JArr(<<>>) ELSE p.val

\* How fs.writeFileSync can end: "ok"; "EACCES": the open fails and the file is
\* untouched; "ENOSPC" / "EIO": the file was opened with O_TRUNC and the write
\* failed, leaving it empty / holding a prefix of the text.
WriteOutcomes == {"ok", "EACCES", "ENOSPC", "EIO"}

writeFileSync(f, text, w) ==
  CASE w = "ok" -> [threw |-> FALSE, file |-> Present(text)]
    [] w = "EACCES" -> [threw |-> TRUE, file |-> f]
    [] w = "ENOSPC" -> [threw |-> TRUE, file |-> Present(EmptyText)]
    [] OTHER -> [threw |-> TRUE, file |-> Present(Garbage)]

\* (mutant) the rewrite forgets what the store held: only the new Lead is written
unshiftAndWrite_dropsStored(l, f, readThrows, w) ==
  LET arr == readLeads(f, readThrows) IN
  IF arr.t # "arr" THEN [threw |-> TRUE, file |-> f]
  ELSE writeFileSync(f, JSONstringify(JArr(<<l>>)), w)

\* The body of saveLead: arr = readLeads(); arr.unshift(lead); writeFileSync.
\* unshift is a TypeError on anything but an array.
unshiftAndWrite(l, f, readThrows, w) ==
  LET arr == readLeads(f, readThrows) IN
  IF arr.t # "arr" THEN [threw |-> TRUE, file |-> f]
  ELSE writeFileSync(f, JSONstringify(JArr(<<l>> \o arr.items)), w)

\* saveLead(lead): server.js wraps the body in try/catch and only logs;
\* part_000 lets the error reach the route's catch.
saveLead(v, l, f, readThrows, w) ==
  LET r == unshiftAndWrite(l, f, readThrows, w) IN
  IF v = "server" THEN [threw |-> FALSE, file |-> r.file] ELSE r

\* The Lead the route builds from req.body and req.files at time t
buildLead(v, body, fs, t) ==
  [id |-> t,
   receivedAt |-> t,
   company |-> Or(body.company, ""),
   contactName |-> IF v = "server"
                   THEN Or(body.name, Or(body.contactName, ""))
                   ELSE Or(body.name, ""),
   files |-> [i \in 1..Len(fs) |->
                [originalname |-> fs[i].originalname, size |-> fs[i].size]]]

\* ------------------------------------------------------------ admin access
NoCred == [present |-> FALSE, name |-> "", pass |-> ""]
Cred(n, p) == [present |-> TRUE, name |-> n, pass |-> p]
Creds == {NoCred} \cup {Cred(n, p) : n \in {"admin", "boss"}, p \in {"password", "s3cret"}}

adminUser(e) == Or(e.ADMIN_USER, "admin")
adminPass(e) == Or(e.ADMIN_PASS, "password")

\* (mutant) the check refuses only when both the name and the password differ
requireAuth_bothMustDiffer(cred, e) ==
  ~(~cred.present \/ (cred.name # adminUser(e) /\ cred.pass # adminPass(e)))

\* requireAuth: TRUE when next() is called, FALSE when it answers 401
requireAuth(cred, e) ==
  ~(~cred.present \/ cred.name # adminUser(e) \/ cred.pass # adminPass(e))

Routes == {"/admin", "/api/leads"}
NoData == [t |-> "none", items |-> <<>>]
NoAdminResp == [status |-> 0, challenge |-> FALSE, body |-> NoData]
Unauthorized == [status |-> 401, challenge |-> TRUE, body |-> NoData]
AdminError == [status |-> 500, challenge |-> FALSE, body |-> NoData]

\* GET /admin: leads.length and for (const l of leads) throw on null and on a
\* non-iterable; the page lists one row per element (a string gives a row per
\* character, none of them a Lead).
adminPage(leads) ==
  IF leads.t \in {"null", "obj"} THEN AdminError
  ELSE [status |-> 200, challenge |-> FALSE, body |-> [t |-> "html", items |-> leads.items]]

\* GET /api/leads: res.json({ok, total: leads.length, leads}); leads.length
\* throws on null.
apiLeads(leads) ==
  IF leads.t = "null" THEN AdminError
  ELSE [status |-> 200, challenge |-> FALSE, body |-> leads]

\* The response of an admin route
adminResponse(route, cred, e, f, readThrows) ==
  IF ~requireAuth(cred, e) THEN Unauthorized
  ELSE IF route = "/admin" THEN adminPage(readLeads(f, readThrows))
  ELSE apiLeads(readLeads(f, readThrows))

\* ------------------------------------------------------------------- state
\* process.env as the handlers read it
Envs == [ADMIN_USER : {undefined, "", "boss"}, ADMIN_PASS : {undefined, "s3cret"},
         notify : BOOLEAN]

\* What leads.json can hold when the service starts
InitFiles ==
  { Absent, Present(EmptyText), Present(Garbage),
    Present(JSONstringify(JNull)), Present(JSONstringify(JObj)),
    Present(JSONstringify(JStr)),
    Present(JSONstringify(JArr(<<>>))), Present(JSONstringify(JArr(<<OldLead>>))) }

\* The state once app.listen has run, for an environment drawn from E and a
\* leads.json drawn from F
InitWith(E, F) ==
  /\ variant \in Variants
  /\ env \in E
  /\ now = 1
  /\ file \in F
  /\ pc = [r \in Reqs |-> "idle"]
  /\ req = [r \in Reqs |-> NoReq]
  /\ resp = [r \in Reqs |-> NoResp]
  /\ lead = [r \in Reqs |-> NoLead]
  /\ email = [r \in Reqs |-> "none"]
  /\ adminResp = NoAdminResp

\* The clock advances
Tick ==
  /\ now < MaxClock
  /\ now' = now + 1
  /\ UNCHANGED <<variant, env, file, pc, req, resp, lead, email,
                 adminResp>>

\* The upload middleware of POST /api/submit: it either ends the request with
\* a MulterError, which no error middleware handles (Express's default handler
\* answers), or hands req.body and req.files to the route.
Upload(r, b, fs) ==
  /\ pc[r] = "idle"
  /\ \A q \in Reqs : q < r => pc[q] # "idle"    \* requests are numbered as they arrive
  /\ req' = [req EXCEPT ![r] = [body |-> b, files |-> fs]]
  /\ IF multerRejects(variant, fs)
     THEN /\ pc' = [pc EXCEPT ![r] = "done"]
          /\ resp' = [resp EXCEPT ![r] = DefaultError]
     ELSE /\ pc' = [pc EXCEPT ![r] = "ready"]
          /\ UNCHANGED resp
  /\ UNCHANGED <<variant, env, now, file, lead, email, adminResp>>

\* The route of POST /api/submit, run to completion: build the lead, saveLead,
\* start the e-mail when configured, answer.  `mailStarts`: require('nodemailer')
\* and createTransport succeed, so sendMail is pending when the response goes out.
Handle(r, readThrows, w, mailStarts) ==
  /\ pc[r] = "ready"
  /\ LET l == buildLead(variant, req[r].body, req[r].files, now)
         s == saveLead(variant, l, file, readThrows, w)
     IN /\ lead' = [lead EXCEPT ![r] = l]
        /\ file' = s.file
        /\ IF s.threw
           THEN /\ resp' = [resp EXCEPT ![r] = ServerError]
                /\ UNCHANGED email
           ELSE /\ resp' = [resp EXCEPT ![r] = OkResp(l.id)]
                /\ email' = [email EXCEPT ![r] =
                               IF ~env.notify THEN "none"
                               ELSE IF mailStarts THEN "pending" ELSE "failed"]
  /\ pc' = [pc EXCEPT ![r] = "done"]
  /\ UNCHANGED <<variant, env, now, req, adminResp>>

\* transporter.sendMail resolves
EmailSent(r) ==
  /\ email[r] = "pending"
  /\ email' = [email EXCEPT ![r] = "sent"]
  /\ UNCHANGED <<variant, env, now, file, pc, req, resp, lead,
                 adminResp>>

\* (mutant) a rejected send reaches the route's catch and answers 500
EmailFailed_answers500(r) ==
  /\ email[r] = "pending"
  /\ email' = [email EXCEPT ![r] = "failed"]
  /\ resp' = [resp EXCEPT ![r] = ServerError]
  /\ UNCHANGED <<variant, env, now, file, pc, req, lead, adminResp>>

\* transporter.sendMail rejects: console.error only
EmailFailed(r) ==
  /\ email[r] = "pending"
  /\ email' = [email EXCEPT ![r] = "failed"]
  /\ UNCHANGED <<variant, env, now, file, pc, req, resp, lead,
                 adminResp>>

\* GET /admin or GET /api/leads
AdminGet(route, cred, readThrows) ==
  /\ adminResp' = adminResponse(route, cred, env, file, readThrows)
  /\ UNCHANGED <<variant, env, now, file, pc, req, resp, lead, email>>

\* The steps of the submission r
Submission(r) ==
  \/ \E s \in Submissions : Upload(r, s.body, s.files)
  \/ \E readThrows \in BOOLEAN, w \in WriteOutcomes, mailStarts \in BOOLEAN :
       Handle(r, readThrows, w, mailStarts)
  \/ EmailSent(r)
  \/ EmailFailed(r)

\* Concurrent submissions.  The admin credentials play no part and are left
\* unset; a store that holds no array behaves alike whatever JSON it holds.
Init ==
  InitWith({e \in Envs : e.ADMIN_USER = undefined /\ e.ADMIN_PASS = undefined},
           {Absent, Present(Garbage), Present(JSONstringify(JObj)),
            Present(JSONstringify(JArr(<<OldLead>>)))})

Next ==
  \/ Tick
  \/ \E r \in Reqs : Submission(r)

Spec == Init /\ [][Next]_vars

\* The admin routes, which only read, against one submission and every
\* environment
AdminInit == InitWith(Envs, InitFiles)

AdminNext ==
  \/ Tick
  \/ Submission(1)
  \/ \E route \in Routes, cred \in Creds, readThrows \in BOOLEAN :
       AdminGet(route, cred, readThrows)

AdminSpec == AdminInit /\ [][AdminNext]_vars

\* ------------------------------------------------------------- properties
\* The Leads leads.json holds, newest first (none when it holds no array)
StoreLeads(f) == readLeads(f, FALSE).items

\* old is the tail of new: nothing of old was dropped, changed or reordered
IsSuffix(old, new) ==
  /\ Len(old) <= Len(new)
  /\ SubSeq(new, Len(new) - Len(old) + 1, Len(new)) = old

\* The handler of submission r runs in this step
Handled(r) == pc[r] = "ready" /\ pc'[r] = "done"

\* The credentials are the configured ones
ValidCred(cred) ==
  /\ cred.present
  /\ cred.name = Or(env.ADMIN_USER, "admin")
  /\ cred.pass = Or(env.ADMIN_PASS, "password")

\* C1: after a POST /api/submit answered {ok:true, id}, and before any further
\* submission, an authenticated GET /api/leads whose read succeeds returns a
\* sequence whose first element is the Lead with that id and the submitted
\* field values, whatever leads.json held before.
C1_SubmittedLeadHeadsApiLeads ==
  [][\A cred \in Creds :
       (/\ pc[1] = "done" /\ resp[1].ok
        /\ ValidCred(cred)
        /\ AdminGet("/api/leads", cred, FALSE))
       => /\ adminResp'.status = 200
          /\ adminResp'.body.t = "arr"
          /\ adminResp'.body.items # <<>>
          /\ LET h == Head(adminResp'.body.items)
             IN /\ h.id = resp[1].id
                /\ h.company = Or(req[1].body.company, "")
                /\ Len(h.files) = Len(req[1].files)]_vars

\* C2: {ok:true, id} is sent only if the Lead was written to the store: when
\* the handler answers ok, leads.json holds an array headed by its Lead.
C2_OkOnlyIfWritten ==
  [][\A r \in Reqs :
       (Handled(r) /\ resp'[r].ok)
       => /\ StoreLeads(file') # <<>>
          /\ Head(StoreLeads(file')) = lead'[r]]_vars

\* C3: a Lead once in the store is never mutated or deleted: every step keeps
\* the stored Leads, unchanged and in order, as the tail of the store, and
\* adds at most one Lead at the front.
C3_StoredLeadsNeverLost ==
  [][/\ IsSuffix(StoreLeads(file), StoreLeads(file'))
     /\ Len(StoreLeads(file')) <= Len(StoreLeads(file)) + 1]_vars

\* C4: of two submissions that have both completed with {ok:true, id}, at
\* least one Lead is in the store (no silent total loss).
C4_AtLeastOnePersisted ==
  \A a, b \in Reqs :
    (a # b /\ pc[a] = "done" /\ pc[b] = "done" /\ resp[a].ok /\ resp[b].ok)
    => \E i \in 1..Len(StoreLeads(file)) :
         StoreLeads(file)[i] = lead[a] \/ StoreLeads(file)[i] = lead[b]

C6_IdsStrictlyIncrease ==
  [][\A r, q \in Reqs :
       (Handled(r) /\ q # r /\ pc[q] = "done" /\ lead[q] # NoLead)
       => lead'[r].id > lead[q].id]_vars

\* C7: GET /admin and GET /api/leads answer 401 with a WWW-Authenticate
\* challenge and no lead data unless the request carries the configured user
\* name and password, and pass the gate when it does.
C7_AdminGated ==
  [][\A route \in Routes, cred \in Creds, readThrows \in BOOLEAN :
       AdminGet(route, cred, readThrows)
       => IF ValidCred(cred)
          THEN adminResp'.status # 401
          ELSE /\ adminResp'.status = 401
               /\ adminResp'.challenge
               /\ adminResp'.body = NoData]_vars

\* C7 witness: a request was refused with the challenge while the store held
\* a Lead.
C7_RefusedWithLeadsStored ==
  /\ adminResp.status = 401 /\ adminResp.challenge
  /\ StoreLeads(file) # <<>>

\* C8: a submission with a 6th file or a file over 10MB is rejected before
\* the store: client error response, no Lead, leads.json unchanged.
C8_OverLimitIsClientError ==
  [][\A r \in Reqs, s \in Submissions :
       (/\ Upload(r, s.body, s.files)
        /\ \/ Len(s.files) > maxFiles
           \/ \E i \in 1..Len(s.files) : s.files[i].size > fileSize)
       => /\ pc'[r] = "done"
          /\ resp'[r].status \in 400..499
          /\ lead'[r] = NoLead
          /\ file' = file]_vars

\* C9: the e-mail is fire-and-forget: whenever a send was started the response
\* {ok:true, id} has already gone out, and the end of a send, success or
\* failure, changes neither a response nor the store.
C9_EmailNeverTouchesResponse ==
  [][/\ \A r \in Reqs :
          email'[r] # "none" => pc'[r] = "done" /\ resp'[r] = OkResp(lead'[r].id)
     /\ (\E r \in Reqs : email[r] = "pending" /\ email'[r] # "pending")
          => resp' = resp /\ file' = file /\ lead' = lead]_vars

\* C9 witness: the send failed, the answer is {ok:true, id} and the Lead is
\* stored.
C9_FailedSendOkResponse ==
  \E r \in Reqs :
    /\ email[r] = "failed" /\ resp[r] = OkResp(lead[r].id)
    /\ StoreLeads(file) # <<>> /\ Head(StoreLeads(file)) = lead[r]

\* C10: readLeads returns a sequence for every content of leads.json, so an
\* authenticated GET /admin or GET /api/leads always answers successfully.
C10_ReadIsAlwaysASequence ==
  [][\A route \in Routes, cred \in Creds, readThrows \in BOOLEAN :
       (ValidCred(cred) /\ AdminGet(route, cred, readThrows))
       => /\ readLeads(file, readThrows).t = "arr"
          /\ adminResp'.status = 200]_vars

====
